---------------------------- MODULE Spec2Model ----------------------------
(***************************************************************************)
(* A model of phtorg's PhotoOrganizer (src/phtorg/organizer.py): the       *)
(* metadata resolvers, the filename planner, the thread-pool planning      *)
(* phase with its aggregation of completions, the confirmation prompt and  *)
(* the rename phase.                                                       *)
(*                                                                         *)
(* Python strings are sequences of one-character strings, so that slicing, *)
(* lower(), replace(), removeprefix() and parsing are computed and not     *)
(* assumed.  A path is the sequence of its parts.                          *)
(***************************************************************************)
EXTENDS Integers, Sequences, FiniteSets, TLC

(***************************************************************************)
(* Bounds of the model.                                                    *)
(***************************************************************************)
\* files present on disk in one run
MaxFiles == 2
\* worker threads of the pool that run at the same time
MaxWorkers == 2
\* answers read at the prompt in one run (_confirm_rename recurses)
MaxPrompts == 2

(***************************************************************************)
(* Characters and strings.                                                 *)
(***************************************************************************)
\* The characters that occur in the model, in code-point order.
Alphabet ==
    <<" ", "-", ".", "0", "1", "2", "3", "4", "5", "6", "7", "8", "9", ":",
      "A", "B", "C", "D", "E", "F", "G", "H", "I", "J", "K", "L", "M", "N",
      "O", "P", "Q", "R", "S", "T", "U", "V", "W", "X", "Y", "Z", "_",
      "a", "b", "c", "d", "e", "f", "g", "h", "i", "j", "k", "l", "m", "n",
      "o", "p", "q", "r", "s", "t", "u", "v", "w", "x", "y", "z", "~">>

CharCode(c) == CHOOSE i \in 1..Len(Alphabet) : Alphabet[i] = c

UpperChars == SubSeq(Alphabet, 15, 40)
LowerChars == SubSeq(Alphabet, 42, 67)

\* str.lower() on one character
LowerChar(c) ==
    IF \E i \in 1..26 : UpperChars[i] = c
    THEN LowerChars[CHOOSE i \in 1..26 : UpperChars[i] = c]
    ELSE c

\* str.lower()
Lower(s) == [i \in 1..Len(s) |-> LowerChar(s[i])]

\* s[:n]
Take(s, n) == SubSeq(s, 1, IF Len(s) < n THEN Len(s) ELSE n)

\* s[n:] (0-based n)
Drop(s, n) == IF n >= Len(s) THEN <<>> ELSE SubSeq(s, n + 1, Len(s))

StartsWith(s, p) == Len(s) >= Len(p) /\ SubSeq(s, 1, Len(p)) = p
EndsWith(s, p) == Len(s) >= Len(p) /\ SubSeq(s, Len(s) - Len(p) + 1, Len(s)) = p

RemovePrefix(s, p) == IF StartsWith(s, p) THEN Drop(s, Len(p)) ELSE s
RemoveSuffix(s, p) == IF EndsWith(s, p) THEN Take(s, Len(s) - Len(p)) ELSE s

RECURSIVE LStrip(_)
LStrip(s) == IF s # <<>> /\ Head(s) = " " THEN LStrip(Tail(s)) ELSE s

RECURSIVE RStrip(_)
RStrip(s) == IF s # <<>> /\ s[Len(s)] = " " THEN RStrip(Take(s, Len(s) - 1)) ELSE s

\* str.strip()
Strip(s) == RStrip(LStrip(s))

\* s.replace(old, new, count) for one-character old and new
RECURSIVE Replace(_, _, _, _)
Replace(s, old, new, count) ==
    IF s = <<>> \/ count = 0 THEN s
    ELSE IF Head(s) = old
         THEN <<new>> \o Replace(Tail(s), old, new, count - 1)
         ELSE <<Head(s)>> \o Replace(Tail(s), old, new, count)

\* lexicographic order of two strings by code point
RECURSIVE StrLess(_, _)
StrLess(s, t) ==
    IF t = <<>> THEN FALSE
    ELSE IF s = <<>> THEN TRUE
    ELSE IF Head(s) = Head(t) THEN StrLess(Tail(s), Tail(t))
    ELSE CharCode(Head(s)) < CharCode(Head(t))

DigitChars == SubSeq(Alphabet, 4, 13)
IsDigit(c) == \E i \in 1..10 : DigitChars[i] = c
DigitVal(c) == (CHOOSE i \in 1..10 : DigitChars[i] = c) - 1
AllDigits(s) == \A i \in 1..Len(s) : IsDigit(s[i])

\* int(s) for a string of digits
RECURSIVE ParseInt(_)
ParseInt(s) ==
    IF s = <<>> THEN 0
    ELSE 10 * ParseInt(Take(s, Len(s) - 1)) + DigitVal(s[Len(s)])

\* str(n) for n >= 0
RECURSIVE IntToStr(_)
IntToStr(n) ==
    IF n < 10 THEN <<DigitChars[n + 1]>>
    ELSE IntToStr(n \div 10) \o <<DigitChars[(n % 10) + 1]>>

\* zero-padded decimal of width w, as strftime's %Y %m %d %H %M %S give
RECURSIVE Pad(_, _)
Pad(n, w) == IF w = 0 THEN <<>> ELSE Pad(n \div 10, w - 1) \o <<DigitChars[(n % 10) + 1]>>

(***************************************************************************)
(* Dates and times.  A datetime is a record of its civil fields with the   *)
(* name of its tzinfo (str(tzinfo)) and its UTC offset in seconds; a naive *)
(* datetime has tzname NoTz.                                               *)
(***************************************************************************)
\* str(PhotoOrganizer.timezone)
Timezone == "America/Vancouver"
NoTz == "None"

IsLeap(y) == (y % 4 = 0 /\ y % 100 # 0) \/ y % 400 = 0

DaysInMonth(y, m) ==
    IF m = 2 THEN (IF IsLeap(y) THEN 28 + 1 ELSE 28)
    ELSE IF m \in {4, 6, 9, 11} THEN 30 ELSE 31

\* days from 1970-01-01 to the civil date
DaysFromCivil(y, m, d) ==
    LET yy  == IF m <= 2 THEN y - 1 ELSE y
        era == yy \div 400
        yoe == yy - era * 400
        mp  == IF m > 2 THEN m - 3 ELSE m + 9
        doy == (153 * mp + 2) \div 5 + d - 1
        doe == yoe * 365 + yoe \div 4 - yoe \div 100 + doy
    IN  era * 146097 + doe - 719468

\* the civil date of a day number
CivilFromDays(days) ==
    LET z   == days + 719468
        era == z \div 146097
        doe == z - era * 146097
        yoe == (doe - doe \div 1460 + doe \div 36524 - doe \div 146096) \div 365
        doy == doe - (365 * yoe + yoe \div 4 - yoe \div 100)
        mp  == (5 * doy + 2) \div 153
        d   == doy - (153 * mp + 2) \div 5 + 1
        m   == IF mp < 10 THEN mp + 3 ELSE mp - 9
        y   == yoe + era * 400
    IN  [year |-> IF m <= 2 THEN y + 1 ELSE y, month |-> m, day |-> d]

MkDatetime(y, mo, d, h, mi, s, tzname, utcoffset) ==
    [year |-> y, month |-> mo, day |-> d, hour |-> h, minute |-> mi,
     second |-> s, tzname |-> tzname, utcoffset |-> utcoffset]

\* seconds since the epoch of an aware datetime (a naive one read as UTC)
ToEpoch(dt) ==
    DaysFromCivil(dt.year, dt.month, dt.day) * 86400
        + dt.hour * 3600 + dt.minute * 60 + dt.second - dt.utcoffset

\* the civil time of an instant at a fixed offset
CivilAt(t, tzname, utcoffset) ==
    LET loc  == t + utcoffset
        days == loc \div 86400
        rem  == loc % 86400
        c    == CivilFromDays(days)
    IN  MkDatetime(c.year, c.month, c.day, rem \div 3600, (rem % 3600) \div 60,
                   rem % 60, tzname, utcoffset)

\* day number of the first Sunday on or after a date (1970-01-01 was a Thursday)
FirstSundayFrom(y, m, d) ==
    LET n == DaysFromCivil(y, m, d) IN n + ((7 - ((n + 4) % 7)) % 7)

\* America/Vancouver, rule in force since 2007: daylight time from the second
\* Sunday of March 02:00 PST to the first Sunday of November 02:00 PDT.
PST == 0 - 28800
PDT == 0 - 25200
IsDST(t) ==
    LET y     == CivilFromDays((t + PST) \div 86400).year
        start == (FirstSundayFrom(y, 3, 1) + 7) * 86400 + 2 * 3600 - PST
        end   == FirstSundayFrom(y, 11, 1) * 86400 + 2 * 3600 - PDT
    IN  start <= t /\ t < end

\* dt.astimezone(self.timezone) for an instant t
AsTimezone(t) == CivilAt(t, Timezone, IF IsDST(t) THEN PDT ELSE PST)

\* self.timezone.localize(dt) for a naive dt (is_dst=False: an ambiguous
\* time is standard time)
Localize(dt) ==
    LET asStd == ToEpoch([dt EXCEPT !.utcoffset = PST])
        off   == IF IsDST(asStd) THEN PDT ELSE PST
    IN  [dt EXCEPT !.tzname = Timezone, !.utcoffset = off]

\* The forms of ISO-8601 that dateutil's isoparse is given here:
\* YYYY-MM-DD, optionally followed by one separator character, HH:MM:SS and
\* an optional zone (Z, -HHMM or -HH:MM).  Anything else raises ValueError.
IsoDateOk(s) ==
    /\ Len(s) >= 10
    /\ AllDigits(SubSeq(s, 1, 4)) /\ s[5] = "-"
    /\ AllDigits(SubSeq(s, 6, 7)) /\ s[8] = "-"
    /\ AllDigits(SubSeq(s, 9, 10))
    /\ ParseInt(SubSeq(s, 1, 4)) >= 1
    /\ ParseInt(SubSeq(s, 6, 7)) \in 1..12
    /\ ParseInt(SubSeq(s, 9, 10)) \in
           1..DaysInMonth(ParseInt(SubSeq(s, 1, 4)), ParseInt(SubSeq(s, 6, 7)))

IsoTimeOk(s) ==
    /\ Len(s) >= 19
    /\ AllDigits(SubSeq(s, 12, 13)) /\ s[14] = ":"
    /\ AllDigits(SubSeq(s, 15, 16)) /\ s[17] = ":"
    /\ AllDigits(SubSeq(s, 18, 19))
    /\ ParseInt(SubSeq(s, 12, 13)) \in 0..23
    /\ ParseInt(SubSeq(s, 15, 16)) \in 0..59
    /\ ParseInt(SubSeq(s, 18, 19)) \in 0..59

\* the zone suffix: [ok, tzname, utcoffset]
IsoZone(z) ==
    LET hhmm == IF Len(z) = 6 /\ z[4] = ":"
                THEN SubSeq(z, 2, 3) \o SubSeq(z, 5, 6)
                ELSE Drop(z, 1)
    IN  IF z = <<>> THEN [ok |-> TRUE, tzname |-> NoTz, utcoffset |-> 0]
        ELSE IF z = <<"Z">> THEN [ok |-> TRUE, tzname |-> "tzutc()", utcoffset |-> 0]
        ELSE IF /\ z[1] = "-" /\ Len(hhmm) = 4 /\ AllDigits(hhmm)
                /\ ParseInt(SubSeq(hhmm, 1, 2)) \in 0..23
                /\ ParseInt(SubSeq(hhmm, 3, 4)) \in 0..59
             THEN [ok |-> TRUE, tzname |-> "tzoffset",
                   utcoffset |-> 0 - (ParseInt(SubSeq(hhmm, 1, 2)) * 3600
                                        + ParseInt(SubSeq(hhmm, 3, 4)) * 60)]
             ELSE [ok |-> FALSE, tzname |-> NoTz, utcoffset |-> 0]

NoDatetime == [isNone |-> TRUE]

\* dateutil.parser.isoparse: [ok, dt]; ok = FALSE stands for ValueError
isoparse(s) ==
    IF ~IsoDateOk(s) THEN [ok |-> FALSE, dt |-> NoDatetime]
    ELSE IF Len(s) = 10
    THEN [ok |-> TRUE,
          dt |-> MkDatetime(ParseInt(SubSeq(s, 1, 4)), ParseInt(SubSeq(s, 6, 7)),
                            ParseInt(SubSeq(s, 9, 10)), 0, 0, 0, NoTz, 0)]
    ELSE IF ~IsoTimeOk(s) \/ ~IsoZone(Drop(s, 19)).ok
    THEN [ok |-> FALSE, dt |-> NoDatetime]
    ELSE [ok |-> TRUE,
          dt |-> MkDatetime(ParseInt(SubSeq(s, 1, 4)), ParseInt(SubSeq(s, 6, 7)),
                            ParseInt(SubSeq(s, 9, 10)), ParseInt(SubSeq(s, 12, 13)),
                            ParseInt(SubSeq(s, 15, 16)), ParseInt(SubSeq(s, 18, 19)),
                            IsoZone(Drop(s, 19)).tzname,
                            IsoZone(Drop(s, 19)).utcoffset)]

\* PhotoOrganizer.parse_timestamp
parse_timestamp(ts) == AsTimezone(ts)

\* dt.strftime('%Y%m%d_%H%M%S')
Strftime(dt) ==
    Pad(dt.year, 4) \o Pad(dt.month, 2) \o Pad(dt.day, 2) \o <<"_">>
        \o Pad(dt.hour, 2) \o Pad(dt.minute, 2) \o Pad(dt.second, 2)

(***************************************************************************)
(* Optional strings (a tag or field that may be None).                     *)
(***************************************************************************)
NoneStr == [isNone |-> TRUE, val |-> <<>>]
Some(s) == [isNone |-> FALSE, val |-> s]
\* Python truthiness of an optional string
Truthy(x) == ~x.isNone /\ x.val # <<>>
\* Python's  a or b
Or(a, b) == IF Truthy(a) THEN a ELSE b

(***************************************************************************)
(* Paths.                                                                  *)
(***************************************************************************)
\* PurePath.name
Name(path) == IF path = <<>> THEN <<>> ELSE path[Len(path)]

\* PurePath.parent
Parent(path) == IF path = <<>> THEN <<>> ELSE SubSeq(path, 1, Len(path) - 1)

\* str.rfind('.') + 1, 0 when there is no dot
RECURSIVE RFindDot(_)
RFindDot(s) ==
    IF s = <<>> THEN 0
    ELSE IF s[Len(s)] = "." THEN Len(s)
    ELSE RFindDot(Take(s, Len(s) - 1))

\* PurePath.suffix: from the last dot of the name, unless the dot is the
\* first or the last character
Suffix(path) ==
    LET n == Name(path)
        i == RFindDot(n)
    IN  IF 1 < i /\ i < Len(n) THEN SubSeq(n, i, Len(n)) ELSE <<>>

\* order of pathlib paths: by their parts, each part by code point
RECURSIVE PathLess(_, _)
PathLess(p, q) ==
    IF q = <<>> THEN FALSE
    ELSE IF p = <<>> THEN TRUE
    ELSE IF Head(p) = Head(q) THEN PathLess(Tail(p), Tail(q))
    ELSE StrLess(Head(p), Head(q))

IsUnder(path, dir) == Len(path) > Len(dir) /\ SubSeq(path, 1, Len(dir)) = dir

(***************************************************************************)
(* Class attributes of PhotoOrganizer and the prefixes of phtorg.constants.*)
(***************************************************************************)
pillow_exts == {<<".", "j", "p", "g">>, <<".", "j", "p", "e", "g">>, <<".", "h", "e", "i", "c">>}
mediainfo_exts == {<<".", "m", "o", "v">>, <<".", "m", "p", "4">>, <<".", "m", "4", "v">>}
screenshot_exts == {<<".", "p", "n", "g">>, <<".", "g", "i", "f">>, <<".", "b", "m", "p">>, <<".", "w", "e", "b", "p">>}
allowed_exts == pillow_exts \cup mediainfo_exts \cup screenshot_exts

Screenshots == <<"S", "c", "r", "e", "e", "n", "s", "h", "o", "t", "s">>
DEFAULT_PREFIX == <<"I", "M", "G", "_">>
SCREENSHOT_PREFIX == <<"S", "c", "r", "e", "e", "n", "s", "h", "o", "t", "_">>
UTC == <<"U", "T", "C">>

(***************************************************************************)
(* A PhotoInfo, and the outcome of a call that may raise: ok = FALSE stands *)
(* for the exception whose repr is exc.                                    *)
(***************************************************************************)
PhotoInfo(path, dt, source, errors) ==
    [path |-> path, datetime |-> dt, datetime_source |-> source, errors |-> errors]

\* an error string: the fixed text and the path interpolated into it, if any
ErrorStr(msg, path) == [msg |-> msg, path |-> path]

Returns(info) == [ok |-> TRUE, exc |-> "", info |-> info]
Raises(exc) == [ok |-> FALSE, exc |-> exc, info |-> NoDatetime]

\* PhotoOrganizer.is_screenshot
is_screenshot(path) ==
    Lower(Suffix(path)) \in screenshot_exts \/ Name(Parent(path)) = Screenshots

\* PhotoOrganizer.get_info_from_file; stat() follows the path to the file f
get_info_from_file(f) ==
    PhotoInfo(f.path, parse_timestamp(f.mtime), "mtime", <<>>)

AppendError(info, msg) ==
    [info EXCEPT !.errors = Append(@, ErrorStr(msg, <<>>))]

\* ExifDatetimeTag with the three tags searched in the opposite order
ExifDatetimeTagReversed(exif) ==
    Or(Or(exif.DateTime, exif.DateTimeDigitized), exif.DateTimeOriginal)

\* what exif.get('DateTimeOriginal') or exif.get('DateTimeDigitized') or
\* exif.get('DateTime') evaluates to
ExifDatetimeTag(exif) ==
    Or(Or(exif.DateTimeOriginal, exif.DateTimeDigitized), exif.DateTime)

\* the EXIF string made ISO: _exif_dt[:19].replace(':', '-', 2)
ExifToIso(s) == Replace(Take(s, 19), ":", "-", 2)

\* not exif: the tag dictionary is empty
ExifEmpty(exif) ==
    /\ exif.DateTimeOriginal.isNone /\ exif.DateTimeDigitized.isNone
    /\ exif.DateTime.isNone /\ ~exif.other

\* get_info_from_pillow raising where it should fall back to the mtime
get_info_from_pillow_strict(f) ==
    IF f.isdir THEN Raises("IsADirectoryError")
    ELSE IF ~f.decodable THEN Raises("UnidentifiedImageError")
    ELSE IF ExifEmpty(f.exif) \/ ExifDatetimeTag(f.exif).isNone
    THEN Raises("KeyError('DateTime')")
    ELSE LET parsed == isoparse(ExifToIso(ExifDatetimeTag(f.exif).val))
         IN  IF ~parsed.ok THEN Raises("ValueError('invalid isoformat string')")
             ELSE IF parsed.dt.tzname # NoTz
             THEN Raises("ValueError('Not naive datetime (tzinfo is already set)')")
             ELSE Returns(PhotoInfo(f.path, Localize(parsed.dt), "EXIF", <<>>))

\* PhotoOrganizer.get_info_from_pillow
get_info_from_pillow(f) ==
    IF f.isdir THEN Raises("IsADirectoryError")
    ELSE IF ~f.decodable THEN Raises("UnidentifiedImageError")
    ELSE IF ExifEmpty(f.exif)
    THEN Returns(AppendError(get_info_from_file(f),
                             "File is EXIF-compatible but no EXIF found"))
    ELSE IF ExifDatetimeTag(f.exif).isNone
    THEN Returns(AppendError(get_info_from_file(f),
                             "EXIF exists but no datetime found"))
    ELSE LET parsed == isoparse(ExifToIso(ExifDatetimeTag(f.exif).val))
         IN  IF ~parsed.ok THEN Raises("ValueError('invalid isoformat string')")
             ELSE IF parsed.dt.tzname # NoTz
             THEN Raises("ValueError('Not naive datetime (tzinfo is already set)')")
             ELSE Returns(PhotoInfo(f.path, Localize(parsed.dt), "EXIF", <<>>))

\* the assertion on encoded_date/tagged_date left out
AnyMarking(s) == TRUE

\* the assertion on encoded_date/tagged_date
HasUtcMarking(s) == StartsWith(s, UTC) \/ EndsWith(s, UTC)

\* dt_str.removeprefix('UTC').removesuffix('UTC').strip()
StripUtcMarking(s) == Strip(RemoveSuffix(RemovePrefix(s, UTC), UTC))

\* aware: dt.astimezone(tz); naive: pytz.utc.localize(dt).astimezone(tz)
ToLocal(dt) ==
    IF dt.tzname # NoTz THEN AsTimezone(ToEpoch(dt))
    ELSE AsTimezone(ToEpoch([dt EXCEPT !.tzname = "UTC", !.utcoffset = 0]))

\* PhotoOrganizer.get_info_from_mediainfo
get_info_from_mediainfo(f) ==
    IF f.isdir \/ ~f.decodable THEN Raises("RuntimeError('MediaInfo.parse failed')")
    ELSE IF Truthy(f.track.comapplequicktimecreationdate)
    THEN LET parsed == isoparse(f.track.comapplequicktimecreationdate.val)
         IN  IF ~parsed.ok THEN Raises("ValueError('invalid isoformat string')")
             ELSE Returns(PhotoInfo(f.path, ToLocal(parsed.dt), "MediaInfo", <<>>))
    ELSE IF Truthy(Or(f.track.encoded_date, f.track.tagged_date))
    THEN LET dt_str == Or(f.track.encoded_date, f.track.tagged_date).val
             parsed == isoparse(StripUtcMarking(dt_str))
         IN  IF ~HasUtcMarking(dt_str)
             THEN Raises("AssertionError('encoded_date/tagged_date should have UTC marking')")
             ELSE IF ~parsed.ok THEN Raises("ValueError('invalid isoformat string')")
             ELSE Returns(PhotoInfo(f.path, ToLocal(parsed.dt), "MediaInfo", <<>>))
    ELSE Returns(AppendError(get_info_from_file(f),
                             "Cannot extract datetime from MediaInfo"))

\* the resolver that get_info picks by the lowercased extension
Resolve(f) ==
    LET ext == Lower(Suffix(f.path))
    IN  IF ext \in pillow_exts THEN get_info_from_pillow(f)
        ELSE IF ext \in mediainfo_exts THEN get_info_from_mediainfo(f)
        ELSE IF is_screenshot(f.path) THEN Returns(get_info_from_file(f))
        ELSE Raises("RuntimeError('Unexpected extension')")

\* the validation at the end of get_info, on a resolver's result
Validate(r) ==
    IF ~r.ok \/ r.info.datetime = NoDatetime THEN r
    ELSE IF r.info.datetime.tzname = NoTz
    THEN Raises("AssertionError('timezone does not exist')")
    ELSE IF r.info.datetime.tzname # Timezone
    THEN Raises("AssertionError('timezone does not match')")
    ELSE r

\* PhotoOrganizer.get_info
get_info(f) == Validate(Resolve(f))

\* hash_obj.hexdigest()[:7]
Fingerprint(f) == Take(f.sha1, 7)

\* get_deterministic_filename keeping the extension as it is written
get_deterministic_filename_keepcase(f, dt, prefix) ==
    prefix \o Strftime(dt) \o <<"_">> \o Fingerprint(f) \o Suffix(f.path)

\* PhotoOrganizer.get_deterministic_filename
get_deterministic_filename(f, dt, prefix) ==
    prefix \o Strftime(dt) \o <<"_">> \o Fingerprint(f) \o Lower(Suffix(f.path))

\* PhotoOrganizer._get_rename_task: [ok, exc, task]; open() of a directory
\* raises
_get_rename_task(f, dstDir) ==
    LET r      == get_info(f)
        prefix == IF is_screenshot(f.path) THEN SCREENSHOT_PREFIX ELSE DEFAULT_PREFIX
    IN  IF ~r.ok THEN [ok |-> FALSE, exc |-> r.exc, task |-> NoDatetime]
        ELSE IF r.info.datetime = NoDatetime
        THEN [ok |-> FALSE, exc |-> "AssertionError('cannot rename without datetime')",
              task |-> NoDatetime]
        ELSE IF f.isdir
        THEN [ok |-> FALSE, exc |-> "IsADirectoryError", task |-> NoDatetime]
        ELSE [ok |-> TRUE, exc |-> "",
              task |-> [photo_info |-> r.info,
                        destination |->
                            dstDir \o <<IntToStr(r.info.datetime.year)>>
                                \o <<get_deterministic_filename(
                                        f, r.info.datetime, prefix)>>]]

(***************************************************************************)
(* The files a run may find on disk.  A file is its path, its identity     *)
(* (st_ino), whether it is a directory, whether the decoder can open it,   *)
(* the SHA-1 of its bytes (the leading hex digits), its st_mtime, the EXIF *)
(* tags Pillow returns and the general track MediaInfo returns.            *)
(***************************************************************************)
Exif(dto, dtd, dt, other) ==
    [DateTimeOriginal |-> dto, DateTimeDigitized |-> dtd, DateTime |-> dt,
     other |-> other]
NoExif == Exif(NoneStr, NoneStr, NoneStr, FALSE)

Track(creation, encoded, tagged) ==
    [comapplequicktimecreationdate |-> creation, encoded_date |-> encoded,
     tagged_date |-> tagged]
NoTrack == Track(NoneStr, NoneStr, NoneStr)

File(path, ino, sha1, mtime, exif, track) ==
    [path |-> path, ino |-> ino, isdir |-> FALSE, decodable |-> TRUE,
     sha1 |-> sha1, mtime |-> mtime, exif |-> exif, track |-> track]

InDir == << <<"i">> >>
OutDir == << <<"o">> >>
RootDir == <<>>

ShaA == <<"a", "b", "c", "1", "2", "3", "4", "f">>
ShaB == <<"0", "d", "5", "e", "9", "a", "1", "7">>

\* three different photographs of one scene, each tag set by another device
PhotoA == File(<<<<"i">>, <<"a", ".", "J", "P", "G">>>>, 1, ShaA, 1615832430,
               Exif(Some(<<"2", "0", "2", "1", ":", "0", "3", ":", "1", "5", " ", "1", "0", ":", "2", "0", ":", "3", "0">>),
                    Some(<<"2", "0", "2", "1", ":", "0", "3", ":", "1", "5", " ", "1", "0", ":", "2", "0", ":", "3", "1">>),
                    Some(<<"2", "0", "2", "1", ":", "0", "3", ":", "1", "6", " ", "0", "8", ":", "0", "0", ":", "0", "0">>), TRUE),
               NoTrack)
\* a copy of PhotoA's bytes whose only date tag has trailing junk
PhotoCopy == File(<<<<"i">>, <<"b", ".", "j", "p", "g">>>>, 2, ShaA, 1615832431,
                  Exif(NoneStr, NoneStr,
                       Some(<<"2", "0", "2", "1", ":", "0", "3", ":", "1", "5", " ", "1", "0", ":", "2", "0", ":", "3", "0", "~", "~">>), FALSE),
                  NoTrack)
\* PhotoA's bytes, already at the destination the planner computes for them
PhotoOrganized ==
    File(<<<<"o">>, <<"2", "0", "2", "1">>, <<"I", "M", "G", "_", "2", "0", "2", "1", "0", "3", "1", "5", "_", "1", "0", "2", "0", "3", "0", "_", "a", "b", "c", "1", "2", "3", "4", ".", "j", "p", "g">>>>, 3, ShaA, 1615832432,
         Exif(Some(<<"2", "0", "2", "1", ":", "0", "3", ":", "1", "5", " ", "1", "0", ":", "2", "0", ":", "3", "0">>), NoneStr, NoneStr, FALSE),
         NoTrack)
PhotoNoExif == File(<<<<"i">>, <<"c", ".", "j", "p", "g">>>>, 4, ShaB, 1600000000, NoExif, NoTrack)
PhotoNoDate ==
    File(<<<<"i">>, <<"S", "c", "r", "e", "e", "n", "s", "h", "o", "t", "s">>, <<"d", ".", "j", "p", "e", "g">>>>, 5, ShaB, 1600000001,
         Exif(NoneStr, NoneStr, NoneStr, TRUE), NoTrack)
VideoNoDate == File(<<<<"i">>, <<"e", ".", "m", "o", "v">>>>, 6, ShaB, 1541322000, NoExif, NoTrack)
VideoNoUtc ==
    File(<<<<"i">>, <<"f", ".", "m", "p", "4">>>>, 7, ShaB, 1600000003, NoExif,
         Track(NoneStr, Some(<<"2", "0", "1", "8", "-", "1", "0", "-", "0", "9", " ", "0", "4", ":", "2", "4", ":", "3", "4">>), NoneStr))
VideoApple ==
    File(<<<<"i">>, <<"g", ".", "M", "O", "V">>>>, 8, ShaB, 1600000004, NoExif,
         Track(Some(<<"2", "0", "1", "8", "-", "1", "0", "-", "0", "8", "T", "2", "1", ":", "2", "4", ":", "3", "4", "-", "0", "7", "0", "0">>),
               Some(<<"U", "T", "C", " ", "2", "0", "1", "8", "-", "1", "0", "-", "0", "9", " ", "0", "4", ":", "2", "4", ":", "4", "0">>), NoneStr))
VideoTagged ==
    File(<<<<"i">>, <<"m", ".", "m", "p", "4">>>>, 9, ShaB, 1600000005, NoExif,
         Track(NoneStr, Some(<<>>), Some(<<"2", "0", "1", "8", "-", "1", "2", "-", "2", "5", " ", "0", "2", ":", "0", "0", ":", "0", "0", " ", "U", "T", "C">>)))
Screenshot == File(<<<<"i">>, <<"h", ".", "P", "N", "G">>>>, 10, ShaB, 1600000006, NoExif, NoTrack)
PhotoBroken ==
    [File(<<<<"i">>, <<"k", ".", "h", "e", "i", "c">>>>, 11, ShaB, 1600000007, NoExif, NoTrack)
         EXCEPT !.decodable = FALSE]
DirNamedGif ==
    [File(<<<<"i">>, <<"q", ".", "g", "i", "f">>>>, 12, <<>>, 1600000008, NoExif, NoTrack)
         EXCEPT !.isdir = TRUE]
TextFile == File(<<<<"i">>, <<"n", ".", "t", "x", "t">>>>, 13, ShaB, 1600000009, NoExif, NoTrack)

\* the files, each at the index that is its identity
Universe ==
    <<PhotoA, PhotoCopy, PhotoOrganized, PhotoNoExif, PhotoNoDate, VideoNoDate,
      VideoNoUtc, VideoApple, VideoTagged, Screenshot, PhotoBroken, DirNamedGif,
      TextFile>>

\* the file whose identity is ino
Inode(ino) == Universe[ino]

\* the directory entries of the files S (a set of identities): the path and
\* the identity of the file it leads to
Entries(S) == {[path |-> Inode(i).path, ino |-> i] : i \in S}

\* the subsets of S of at most k elements
RECURSIVE SubsetsUpTo(_, _)
SubsetsUpTo(S, k) ==
    IF k = 0 THEN {{}}
    ELSE LET smaller == SubsetsUpTo(S, k - 1)
         IN  smaller \cup {x \cup {u} : x \in smaller, u \in S}

\* the src_dir arguments tried on a disk holding the files S: the directory
\* of the sources; the directory above sources and destinations, when a file
\* lies at a destination; a single file
SrcDirs(S) ==
    {InDir} \cup (IF PhotoOrganized.ino \in S THEN {RootDir} ELSE {})
            \cup (IF PhotoA.ino \in S THEN {PhotoA.path} ELSE {})

\* the answers typed at the prompt
Responses == {<<"r">>, <<"R">>, <<"p">>, <<"P">>, <<"s">>, <<"S">>, <<"a">>,
              <<"A">>, <<"x">>, <<>>, <<"r", " ">>}

(***************************************************************************)
(* State.                                                                  *)
(***************************************************************************)
VARIABLES
    src_dir,        \* PhotoOrganizer.src_dir
    dst_dir,        \* PhotoOrganizer.dst_dir
    disk,           \* the files on disk
    mkdirs,         \* the directories _do_rename has created
    pc,             \* where the main thread is
    photos,         \* the sorted candidates of _prepare_rename_tasks
    futures,        \* per submitted candidate: the future's state and result
    tpe_shutdown,   \* tpe.shutdown(wait=False, cancel_futures=True) was called
    pending,        \* the futures not yet returned by wait()
    done_now,       \* the futures of the current batch not yet iterated over
    cur,            \* the future the loop body is handling, 0 if none
    drained,        \* the futures whose loop body ran to its end
    pbar,           \* tqdm: total, n, closed
    rename_tasks,   \* PhotoOrganizer.rename_tasks
    skipped_items,  \* PhotoOrganizer.skipped_items
    collected,      \* the two counts logged by start, <<>> before that
    prompts,        \* the number of answers read by _confirm_rename
    answer,         \* what input() returned last, as typed
    traceback,      \* where the exception that ended start was raised, "" if none
    csv,            \* the rows written by _save_tasks, <<>> before that
    renamed,        \* the number of tasks _do_rename has moved
    call            \* a direct call of _get_rename_task: its argument and outcome

vars == <<src_dir, dst_dir, disk, mkdirs, pc, photos, futures, tpe_shutdown,
          pending, done_now, cur, drained, pbar, rename_tasks, skipped_items,
          collected, prompts, answer, traceback, csv, renamed, call>>

planVars == <<photos, futures, tpe_shutdown, pending, done_now, cur, drained, pbar>>
promptVars == <<collected, prompts, answer, traceback, csv, renamed>>
worldVars == <<src_dir, dst_dir, disk, mkdirs, call>>

(***************************************************************************)
(* The file system.                                                        *)
(***************************************************************************)
\* the file a path leads to
FileAt(d, path) ==
    [Inode((CHOOSE e \in d : e.path = path).ino) EXCEPT !.path = path]

\* Path.is_file()
IsFile(d, path) == \E e \in d : e.path = path /\ ~Inode(e.ino).isdir

\* Path.exists(): a file, or a directory some file lies under or mkdir made
Exists(d, made, path) ==
    \/ \E f \in d : f.path = path \/ IsUnder(f.path, path)
    \/ path \in made

\* Path.samefile(): both paths stat to the same file
SameFile(d, p, q) ==
    /\ \E f \in d : f.path = p
    /\ \E f \in d : f.path = q
    /\ FileAt(d, p).ino = FileAt(d, q).ino

\* src_dir.rglob('*.*'): every path below src_dir whose name has a dot
RGlob(d, dir) ==
    {f.path : f \in {g \in d : IsUnder(g.path, dir) /\ RFindDot(Name(g.path)) > 0}}

\* the directories mkdir(parents=True) makes sure exist
RECURSIVE Ancestors(_)
Ancestors(dir) == IF dir = <<>> THEN {} ELSE {dir} \cup Ancestors(Parent(dir))

\* sorted() of a set of paths
RECURSIVE SortedPaths(_)
SortedPaths(S) ==
    IF S = {} THEN <<>>
    ELSE LET least == CHOOSE p \in S : \A q \in S : ~PathLess(q, p)
         IN  <<least>> \o SortedPaths(S \ {least})

\* the candidates: photo_paths filtered by allowed_exts, sorted
Candidates(d, src) ==
    LET photo_paths == IF IsFile(d, src) THEN {src} ELSE RGlob(d, src)
    IN  SortedPaths({q \in photo_paths : Lower(Suffix(q)) \in allowed_exts})

\* dataclass order=True: PhotoInfo orders by its path first, RenameTask by
\* its photo_info; the paths of one run are distinct
InfoLess(a, b) == PathLess(a.path, b.path)
TaskLess(a, b) == InfoLess(a.photo_info, b.photo_info)

\* no direct call of _get_rename_task is made in a run of start
NoCall == [made |-> FALSE]

(***************************************************************************)
(* Initial state: after PhotoOrganizer(src_dir, dst_dir).                  *)
(***************************************************************************)
Init ==
    /\ \E S \in SubsetsUpTo(DOMAIN Universe, MaxFiles) :
          /\ disk = Entries(S)
          /\ src_dir \in SrcDirs(S)
    /\ dst_dir = OutDir
    /\ mkdirs = {}
    /\ pc = "start"
    /\ photos = <<>>
    /\ futures = <<>>
    /\ tpe_shutdown = FALSE
    /\ pending = {}
    /\ done_now = {}
    /\ cur = 0
    /\ drained = {}
    /\ pbar = [total |-> 0, n |-> 0, closed |-> FALSE]
    /\ rename_tasks = <<>>
    /\ skipped_items = <<>>
    /\ collected = <<>>
    /\ prompts = 0
    /\ answer = <<>>
    /\ traceback = ""
    /\ csv = <<>>
    /\ renamed = 0
    /\ call = NoCall

(***************************************************************************)
(* start and _prepare_rename_tasks on the main thread.                     *)
(***************************************************************************)
\* start up to the sorted candidate list of _prepare_rename_tasks
Discover ==
    /\ pc = "start"
    /\ photos' = Candidates(disk, src_dir)
    /\ pc' = "submit"
    /\ UNCHANGED <<worldVars, futures, tpe_shutdown, pending, done_now, cur,
                   drained, pbar, rename_tasks, skipped_items, promptVars>>

\* The frame of _prepare_rename_tasks is left: its locals (the candidate
\* list, the pool and its futures, the pending set, the progress bar) are no
\* longer reachable, and what the pool's threads still do touches no state of
\* the program.
DropLocals ==
    /\ photos' = <<>>
    /\ futures' = <<>>
    /\ tpe_shutdown' = FALSE
    /\ pending' = {}
    /\ done_now' = {}
    /\ cur' = 0
    /\ drained' = {}
    /\ pbar' = [total |-> 0, n |-> 0, closed |-> FALSE]

NoResult == [ok |-> FALSE, exc |-> "", task |-> NoDatetime]

\* one tpe.submit of the dict comprehension
Submit ==
    /\ pc = "submit"
    /\ Len(futures) < Len(photos)
    /\ futures' = Append(futures, [state |-> "queued", result |-> NoResult])
    /\ UNCHANGED <<worldVars, pc, photos, tpe_shutdown, pending, done_now, cur,
                   drained, pbar, rename_tasks, skipped_items, promptVars>>

\* pending = set(futures_map.keys()); pbar = tqdm(total=len(futures_map))
BeginDrain ==
    /\ pc = "submit"
    /\ Len(futures) = Len(photos)
    /\ pending' = 1..Len(futures)
    /\ pbar' = [total |-> Len(futures), n |-> 0, closed |-> FALSE]
    /\ pc' = "wait"
    /\ UNCHANGED <<worldVars, photos, futures, tpe_shutdown, done_now, cur,
                   drained, rename_tasks, skipped_items, promptVars>>

Finished(i) == futures[i].state \in {"done", "cancelled"}

\* Wait dropping the finished futures from pending without returning them
WaitDropsDone ==
    /\ pc = "wait"
    /\ \E i \in pending : Finished(i)
    /\ done_now' = {}
    /\ pending' = {i \in pending : ~Finished(i)}
    /\ pc' = "loop"
    /\ UNCHANGED <<worldVars, photos, futures, tpe_shutdown, cur, drained,
                   pbar, rename_tasks, skipped_items, promptVars>>

\* concurrent.futures.wait(pending, timeout=0.1, FIRST_COMPLETED) returning
\* finished futures; a timeout that returns none changes nothing
Wait ==
    /\ pc = "wait"
    /\ \E i \in pending : Finished(i)
    /\ done_now' = {i \in pending : Finished(i)}
    /\ pending' = pending \ done_now'
    /\ pc' = "loop"
    /\ UNCHANGED <<worldVars, photos, futures, tpe_shutdown, cur, drained,
                   pbar, rename_tasks, skipped_items, promptVars>>

\* TakeFuture without pbar.update(1)
TakeFutureNoUpdate ==
    /\ pc = "loop"
    /\ \E i \in done_now :
          /\ cur' = i
          /\ done_now' = done_now \ {i}
    /\ pc' = "result"
    /\ UNCHANGED <<worldVars, photos, futures, tpe_shutdown, pending, drained,
                   pbar, rename_tasks, skipped_items, promptVars>>

\* for future in done_now: pbar.update(1)
TakeFuture ==
    /\ pc = "loop"
    /\ \E i \in done_now :
          /\ cur' = i
          /\ done_now' = done_now \ {i}
    /\ pbar' = [pbar EXCEPT !.n = @ + 1]
    /\ pc' = "result"
    /\ UNCHANGED <<worldVars, photos, futures, tpe_shutdown, pending, drained,
                   rename_tasks, skipped_items, promptVars>>

\* Rejected without the collision error
RejectedSilently(task) == task.photo_info

\* the collision error appended to the PhotoInfo of a rejected task
Rejected(task) ==
    [task.photo_info EXCEPT
        !.errors = Append(@, ErrorStr("Destination already exists", task.destination))]

\* the PhotoInfo built for a worker that raised
Failed(path, exc) == PhotoInfo(path, NoDatetime, "None", <<ErrorStr(exc, <<>>)>>)

\* Classify with the failure branch appending nothing
ClassifyDropsFailed(d, made, path, r) ==
    IF ~r.ok THEN [kind |-> "noop", item |-> NoDatetime]
    ELSE IF Exists(d, made, r.task.destination)
    THEN IF SameFile(d, r.task.destination, r.task.photo_info.path)
         THEN [kind |-> "noop", item |-> NoDatetime]
         ELSE [kind |-> "skip", item |-> Rejected(r.task)]
    ELSE [kind |-> "accept", item |-> r.task]

\* Classify without the samefile test
ClassifyNoSameFile(d, made, path, r) ==
    IF ~r.ok THEN [kind |-> "skip", item |-> Failed(path, r.exc)]
    ELSE IF Exists(d, made, r.task.destination)
    THEN [kind |-> "skip", item |-> Rejected(r.task)]
    ELSE [kind |-> "accept", item |-> r.task]

\* what the loop body appends for a finished future with result r:
\* "skip" and the PhotoInfo, "accept" and the RenameTask, or "noop"
Classify(d, made, path, r) ==
    IF ~r.ok THEN [kind |-> "skip", item |-> Failed(path, r.exc)]
    ELSE IF Exists(d, made, r.task.destination)
    THEN IF SameFile(d, r.task.destination, r.task.photo_info.path)
         THEN [kind |-> "noop", item |-> NoDatetime]
         ELSE [kind |-> "skip", item |-> Rejected(r.task)]
    ELSE [kind |-> "accept", item |-> r.task]

\* HandleResult with an except clause that lets AssertionError through
HandleResultNarrowExcept ==
    /\ pc = "result"
    /\ LET r == futures[cur].result
           c == Classify(disk, mkdirs, photos[cur], r)
           uncaught == ~r.ok /\ r.exc \in
               {"AssertionError('encoded_date/tagged_date should have UTC marking')",
                "AssertionError('timezone does not exist')",
                "AssertionError('timezone does not match')",
                "AssertionError('cannot rename without datetime')"}
       IN  IF uncaught
           THEN /\ pc' = "crashed"
                /\ traceback' = pc
                /\ DropLocals
                /\ UNCHANGED <<worldVars, rename_tasks, skipped_items, collected,
                               prompts, answer, csv, renamed>>
           ELSE /\ rename_tasks' = IF c.kind = "accept"
                                   THEN Append(rename_tasks, c.item) ELSE rename_tasks
                /\ skipped_items' = IF c.kind = "skip"
                                    THEN Append(skipped_items, c.item) ELSE skipped_items
                /\ drained' = drained \cup {cur}
                /\ cur' = 0
                /\ pc' = IF done_now = {} THEN "wait" ELSE "loop"
                /\ UNCHANGED <<worldVars, photos, futures, tpe_shutdown, pending,
                               done_now, pbar, promptVars>>

\* the rest of the loop body: future.result() and the validation
HandleResult ==
    /\ pc = "result"
    /\ LET c == Classify(disk, mkdirs, photos[cur], futures[cur].result)
       IN  /\ rename_tasks' = IF c.kind = "accept"
                              THEN Append(rename_tasks, c.item) ELSE rename_tasks
           /\ skipped_items' = IF c.kind = "skip"
                               THEN Append(skipped_items, c.item) ELSE skipped_items
    /\ drained' = drained \cup {cur}
    /\ cur' = 0
    /\ pc' = IF done_now = {} THEN "wait" ELSE "loop"
    /\ UNCHANGED <<worldVars, photos, futures, tpe_shutdown, pending, done_now,
                   pbar, promptVars>>

\* while pending: is false; finally: pbar.close()
PlanningDone ==
    /\ pc = "wait"
    /\ pending = {}
    /\ pbar' = [pbar EXCEPT !.closed = TRUE]
    /\ pc' = "sort"
    /\ UNCHANGED <<worldVars, photos, futures, tpe_shutdown, pending, done_now,
                   cur, drained, rename_tasks, skipped_items, promptVars>>

\* cancel_futures=True: the work items still in the queue are cancelled
CancelQueued(fs) ==
    [i \in 1..Len(fs) |->
        IF fs[i].state = "queued" THEN [fs[i] EXCEPT !.state = "cancelled"] ELSE fs[i]]

\* InterruptPlanning that also throws away what was collected
InterruptPlanningDiscards ==
    /\ pc \in {"wait", "loop", "result"}
    /\ futures' = CancelQueued(futures)
    /\ tpe_shutdown' = TRUE
    /\ pbar' = [pbar EXCEPT !.closed = TRUE]
    /\ pc' = "sort"
    /\ rename_tasks' = <<>>
    /\ skipped_items' = <<>>
    /\ UNCHANGED <<worldVars, photos, pending, done_now, cur, drained, promptVars>>

\* InterruptPlanning with tpe.shutdown(wait=False), cancel_futures left out
InterruptPlanningNoCancel ==
    /\ pc \in {"wait", "loop", "result"}
    /\ tpe_shutdown' = TRUE
    /\ pbar' = [pbar EXCEPT !.closed = TRUE]
    /\ pc' = "sort"
    /\ UNCHANGED <<worldVars, photos, futures, pending, done_now, cur, drained,
                   rename_tasks, skipped_items, promptVars>>

\* KeyboardInterrupt inside the try block: the except and finally clauses
InterruptPlanning ==
    /\ pc \in {"wait", "loop", "result"}
    /\ futures' = CancelQueued(futures)
    /\ tpe_shutdown' = TRUE
    /\ pbar' = [pbar EXCEPT !.closed = TRUE]
    /\ pc' = "sort"
    /\ UNCHANGED <<worldVars, photos, pending, done_now, cur, drained,
                   rename_tasks, skipped_items, promptVars>>

\* KeyboardInterrupt where no handler is in scope: start's own statements, the
\* priming sort, the submissions and _do_rename; it propagates out of start
InterruptUncaught ==
    /\ pc \in {"start", "submit", "sort", "rename"}
    /\ pc' = "crashed"
    /\ traceback' = pc
    /\ DropLocals
    /\ UNCHANGED <<worldVars, rename_tasks, skipped_items, collected, prompts,
                   answer, csv, renamed>>

\* SortAndReport without the two sorts
SortAndReportUnsorted ==
    /\ pc = "sort"
    /\ collected' = <<Len(rename_tasks), Len(skipped_items)>>
    /\ pc' = "prompt"
    /\ DropLocals
    /\ UNCHANGED <<worldVars, rename_tasks, skipped_items, prompts, answer,
                   traceback, csv, renamed>>

\* start after _prepare_rename_tasks: the two sorts and the two log lines.
\* The locals of _prepare_rename_tasks are gone by now.
SortAndReport ==
    /\ pc = "sort"
    /\ rename_tasks' = SortSeq(rename_tasks, TaskLess)
    /\ skipped_items' = SortSeq(skipped_items, InfoLess)
    /\ collected' = <<Len(rename_tasks), Len(skipped_items)>>
    /\ pc' = "prompt"
    /\ DropLocals
    /\ UNCHANGED <<worldVars, prompts, answer, traceback, csv, renamed>>

(***************************************************************************)
(* The worker threads of the pool.                                         *)
(***************************************************************************)
Running == {i \in 1..Len(futures) : futures[i].state = "running"}
Queued == {i \in 1..Len(futures) : futures[i].state = "queued"}

\* an idle worker takes the oldest work item of the queue
WorkerStart ==
    /\ Queued # {}
    /\ Cardinality(Running) < MaxWorkers
    /\ LET i == CHOOSE j \in Queued : \A k \in Queued : j <= k
       IN  futures' = [futures EXCEPT ![i].state = "running"]
    /\ UNCHANGED <<worldVars, pc, photos, tpe_shutdown, pending, done_now, cur,
                   drained, pbar, rename_tasks, skipped_items, promptVars>>

\* the outcome of the worker's call; stat() or open() of a path that is gone
\* raises
WorkerResult(d, path, dstDir) ==
    IF \E f \in d : f.path = path
    THEN _get_rename_task(FileAt(d, path), dstDir)
    ELSE [ok |-> FALSE, exc |-> "FileNotFoundError", task |-> NoDatetime]

\* a worker returns from _get_rename_task or raises out of it
WorkerFinish ==
    /\ \E i \in Running :
          futures' = [futures EXCEPT
                         ![i].state = "done",
                         ![i].result = WorkerResult(disk, photos[i], dst_dir)]
    /\ UNCHANGED <<worldVars, pc, photos, tpe_shutdown, pending, done_now, cur,
                   drained, pbar, rename_tasks, skipped_items, promptVars>>

(***************************************************************************)
(* _confirm_rename, _preview_tasks, _save_tasks and _do_rename.            *)
(***************************************************************************)
\* Resp without lower()
RespCaseSensitive(typed) == typed

\* input(...).lower() of an answer
Resp(typed) == Lower(typed)

Recognized == {<<"r">>, <<"p">>, <<"s">>, <<"a">>}

\* RenameTask.row and PhotoInfo.row
TaskRow(t) ==
    [src |-> t.photo_info.path, datetime |-> t.photo_info.datetime,
     datetime_source |-> t.photo_info.datetime_source, dst |-> t.destination]
InfoRow(i) == [src |-> i.path, errors |-> i.errors]

\* resp == 'r': _do_rename is entered
AnswerRename ==
    /\ pc = "prompt"
    /\ prompts < MaxPrompts
    /\ \E a \in Responses :
          /\ Resp(a) = <<"r">>
          /\ answer' = a
    /\ prompts' = prompts + 1
    /\ renamed' = 0
    /\ pc' = "rename"
    /\ UNCHANGED <<worldVars, planVars, rename_tasks, skipped_items, collected,
                   traceback, csv>>

\* resp == 'p': _preview_tasks prints the two tables, then the prompt again
AnswerPreview ==
    /\ pc = "prompt"
    /\ prompts < MaxPrompts
    /\ \E a \in Responses :
          /\ Resp(a) = <<"p">>
          /\ answer' = a
    /\ prompts' = prompts + 1
    /\ UNCHANGED <<worldVars, planVars, pc, rename_tasks, skipped_items,
                   collected, traceback, csv, renamed>>

\* resp == 's': _save_tasks writes the two CSV files, then the prompt again
AnswerSave ==
    /\ pc = "prompt"
    /\ prompts < MaxPrompts
    /\ \E a \in Responses :
          /\ Resp(a) = <<"s">>
          /\ answer' = a
    /\ prompts' = prompts + 1
    /\ csv' = <<[i \in 1..Len(rename_tasks) |-> TaskRow(rename_tasks[i])],
                [i \in 1..Len(skipped_items) |-> InfoRow(skipped_items[i])]>>
    /\ UNCHANGED <<worldVars, planVars, pc, rename_tasks, skipped_items,
                   collected, traceback, renamed>>

\* resp == 'a': return
AnswerAbort ==
    /\ pc = "prompt"
    /\ prompts < MaxPrompts
    /\ \E a \in Responses :
          /\ Resp(a) = <<"a">>
          /\ answer' = a
    /\ prompts' = prompts + 1
    /\ pc' = "done"
    /\ UNCHANGED <<worldVars, planVars, rename_tasks, skipped_items, collected,
                   traceback, csv, renamed>>

\* AnswerOther taking the capitalised choice of the prompt as the default
AnswerOtherRenames ==
    /\ pc = "prompt"
    /\ prompts < MaxPrompts
    /\ \E a \in Responses :
          /\ Resp(a) \notin Recognized
          /\ answer' = a
    /\ prompts' = prompts + 1
    /\ renamed' = 0
    /\ pc' = "rename"
    /\ UNCHANGED <<worldVars, planVars, rename_tasks, skipped_items, collected,
                   traceback, csv>>

\* any other answer: the prompt again
AnswerOther ==
    /\ pc = "prompt"
    /\ prompts < MaxPrompts
    /\ \E a \in Responses :
          /\ Resp(a) \notin Recognized
          /\ answer' = a
    /\ prompts' = prompts + 1
    /\ UNCHANGED <<worldVars, planVars, pc, rename_tasks, skipped_items,
                   collected, traceback, csv, renamed>>

\* KeyboardInterrupt in input(): return
InterruptPrompt ==
    /\ pc = "prompt"
    /\ pc' = "done"
    /\ UNCHANGED <<worldVars, planVars, rename_tasks, skipped_items, promptVars>>

\* Path.rename on POSIX: the source's file is at dst afterwards, replacing
\* whatever file was there
MoveFile(d, src, dst) ==
    {e \in d : e.path # src /\ e.path # dst}
        \cup {[path |-> dst, ino |-> FileAt(d, src).ino]}

\* one iteration of _do_rename: mkdir(parents=True, exist_ok=True), rename;
\* renaming a path that is gone raises FileNotFoundError out of start
RenameStep ==
    /\ pc = "rename"
    /\ renamed < Len(rename_tasks)
    /\ LET task == rename_tasks[renamed + 1]
           src  == task.photo_info.path
       IN  /\ mkdirs' = mkdirs \cup Ancestors(Parent(task.destination))
           /\ IF \E f \in disk : f.path = src
              THEN /\ disk' = MoveFile(disk, src, task.destination)
                   /\ renamed' = renamed + 1
                   /\ pc' = pc
                   /\ traceback' = traceback
              ELSE /\ disk' = disk
                   /\ renamed' = renamed
                   /\ pc' = "crashed"
                   /\ traceback' = pc
    /\ UNCHANGED <<src_dir, dst_dir, call, planVars, rename_tasks, skipped_items,
                   collected, prompts, answer, csv>>

\* _do_rename has moved every task; start returns
RenameDone ==
    /\ pc = "rename"
    /\ renamed = Len(rename_tasks)
    /\ pc' = "done"
    /\ UNCHANGED <<worldVars, planVars, rename_tasks, skipped_items, promptVars>>

(***************************************************************************)
(* The specification.                                                      *)
(***************************************************************************)
Next ==
    \/ Discover
    \/ Submit
    \/ BeginDrain
    \/ Wait
    \/ TakeFuture
    \/ HandleResult
    \/ PlanningDone
    \/ InterruptPlanning
    \/ InterruptUncaught
    \/ SortAndReport
    \/ WorkerStart
    \/ WorkerFinish
    \/ AnswerRename
    \/ AnswerPreview
    \/ AnswerSave
    \/ AnswerAbort
    \/ AnswerOther
    \/ InterruptPrompt
    \/ RenameStep
    \/ RenameDone

Spec == Init /\ [][Next]_vars

(***************************************************************************)
(* Planning without a KeyboardInterrupt, up to the return of               *)
(* _prepare_rename_tasks.  The main thread keeps running: its next step,   *)
(* when it stays possible, is eventually taken.  An idle worker of the     *)
(* pool eventually takes queued work, and every worker eventually finishes *)
(* (returns or raises): _get_rename_task waits for nothing.                *)
(***************************************************************************)
NextPlanning ==
    \/ Discover
    \/ Submit
    \/ BeginDrain
    \/ Wait
    \/ TakeFuture
    \/ HandleResult
    \/ PlanningDone
    \/ WorkerStart
    \/ WorkerFinish

\* the steps of the main thread after the discovery
MainThread ==
    \/ Submit
    \/ BeginDrain
    \/ Wait
    \/ TakeFuture
    \/ HandleResult
    \/ PlanningDone

\* the Discover step, as the main thread's position shows it
Discovered == pc = "start" /\ pc' = "submit"

\* every worker eventually finishes
WorkersFinish == []<>(Running = {})

SpecPlanning ==
    /\ Init /\ [][NextPlanning]_vars
    /\ WF_pc(Discovered)
    /\ WF_vars(MainThread)
    /\ WF_vars(WorkerStart)
    /\ WorkersFinish

(***************************************************************************)
(* _get_rename_task called on one file: the files tried are images with    *)
(* every combination of the three date tags absent, blank or set, videos   *)
(* and screenshots with each kind of general track, each under a plain     *)
(* directory and under a directory named Screenshots.                      *)
(***************************************************************************)
Blank == Some(<<>>)

CallExifs ==
    {Exif(a, b, c, o) :
        a \in {NoneStr, Blank, PhotoA.exif.DateTimeOriginal},
        b \in {NoneStr, Blank, PhotoA.exif.DateTimeDigitized},
        c \in {NoneStr, Blank, PhotoA.exif.DateTime, PhotoCopy.exif.DateTime},
        o \in BOOLEAN}

CallTracks == {NoTrack, VideoNoUtc.track, VideoApple.track, VideoTagged.track}

CallImagePaths ==
    {PhotoA.path, <<<<"i">>, Screenshots, <<"s", ".", "j", "p", "g">>>>}
CallOtherPaths ==
    {VideoApple.path, <<<<"i">>, Screenshots, <<"v", ".", "m", "p", "4">>>>,
     Screenshot.path, <<<<"i">>, Screenshots, <<"w", ".", "w", "e", "b", "p">>>>}

CallFiles ==
    {File(p, PhotoA.ino, ShaA, VideoNoDate.mtime, e, NoTrack) :
        p \in CallImagePaths, e \in CallExifs}
    \cup {File(p, PhotoA.ino, ShaB, VideoNoDate.mtime, NoExif, t) :
        p \in CallOtherPaths, t \in CallTracks}

\* a PhotoOrganizer is constructed and _get_rename_task is about to be called
InitCall ==
    /\ call \in {[made |-> TRUE, f |-> f, returned |-> FALSE, result |-> NoResult] :
                    f \in CallFiles}
    /\ src_dir = InDir
    /\ dst_dir = OutDir
    /\ disk = {}
    /\ mkdirs = {}
    /\ pc = "call"
    /\ photos = <<>>
    /\ futures = <<>>
    /\ tpe_shutdown = FALSE
    /\ pending = {}
    /\ done_now = {}
    /\ cur = 0
    /\ drained = {}
    /\ pbar = [total |-> 0, n |-> 0, closed |-> FALSE]
    /\ rename_tasks = <<>>
    /\ skipped_items = <<>>
    /\ collected = <<>>
    /\ prompts = 0
    /\ answer = <<>>
    /\ traceback = ""
    /\ csv = <<>>
    /\ renamed = 0

\* the call returns a RenameTask or raises
CallGetRenameTask ==
    /\ pc = "call"
    /\ call.made /\ ~call.returned
    /\ call' = [call EXCEPT !.returned = TRUE,
                            !.result = _get_rename_task(call.f, dst_dir)]
    /\ UNCHANGED <<src_dir, dst_dir, disk, mkdirs, pc, planVars, rename_tasks,
                   skipped_items, promptVars>>

NextCall == CallGetRenameTask

SpecCall == InitCall /\ [][NextCall]_vars

(***************************************************************************)
(* What the claims speak of.                                               *)
(***************************************************************************)
\* the number of entries of rename_tasks, of skipped_items, whose source is path
TaskCount(path) ==
    Cardinality({k \in 1..Len(rename_tasks) : rename_tasks[k].photo_info.path = path})
SkipCount(path) ==
    Cardinality({k \in 1..Len(skipped_items) : skipped_items[k].path = path})

\* _prepare_rename_tasks has ended and start has not gone on yet
PlanningEnded == pc = "sort"
\* no KeyboardInterrupt was handled in _prepare_rename_tasks
NotCancelled == ~tpe_shutdown

AllFutures == 1..Len(futures)
Completed(i) == futures[i].state = "done"
Succeeded(i) == Completed(i) /\ futures[i].result.ok
Raised(i) == Completed(i) /\ ~futures[i].result.ok
DestinationOf(i) == futures[i].result.task.destination

\* the worker succeeded and its destination is the source itself
IsNoop(i) ==
    /\ Succeeded(i)
    /\ Exists(disk, mkdirs, DestinationOf(i))
    /\ SameFile(disk, DestinationOf(i), photos[i])

\* the worker succeeded and its destination is another file or a directory
IsCollision(i) ==
    /\ Succeeded(i)
    /\ Exists(disk, mkdirs, DestinationOf(i))
    /\ ~SameFile(disk, DestinationOf(i), photos[i])

\* the worker succeeded and nothing is at its destination
IsFree(i) == Succeeded(i) /\ ~Exists(disk, mkdirs, DestinationOf(i))

\* candidate i is listed the way its own result and the disk call for
ListedAsItsOwnResultSays(i) ==
    /\ TaskCount(photos[i]) = (IF IsFree(i) THEN 1 ELSE 0)
    /\ SkipCount(photos[i]) = (IF Raised(i) \/ IsCollision(i) THEN 1 ELSE 0)

HasCollisionError(info) ==
    \E e \in 1..Len(info.errors) : info.errors[e].msg = "Destination already exists"

(***************************************************************************)
(* C1.  Partition, as claimed: when the planning phase of a run that is    *)
(* not cancelled ends, every candidate is the source of exactly one entry  *)
(* of rename_tasks or of exactly one entry of skipped_items.  (Fails: an   *)
(* already organized file is in neither list.)                             *)
(***************************************************************************)
C1_ExactlyOneList ==
    (PlanningEnded /\ NotCancelled) =>
        \A i \in 1..Len(photos) : TaskCount(photos[i]) + SkipCount(photos[i]) = 1

(***************************************************************************)
(* C1, amended.  When the planning phase of a run that is not cancelled    *)
(* ends, every candidate is the source of exactly one entry of             *)
(* rename_tasks, or of exactly one entry of skipped_items, or of no entry  *)
(* at all, the last exactly when its worker succeeded and its destination  *)
(* exists and is the candidate itself; and every entry of the two lists    *)
(* has a candidate as its source.                                          *)
(***************************************************************************)
C1_PartitionOrNoop ==
    (PlanningEnded /\ NotCancelled) =>
        /\ \A i \in 1..Len(photos) :
              /\ Completed(i)
              /\ TaskCount(photos[i]) + SkipCount(photos[i])
                     = (IF IsNoop(i) THEN 0 ELSE 1)
        /\ \A k \in 1..Len(rename_tasks) :
              \E i \in 1..Len(photos) : photos[i] = rename_tasks[k].photo_info.path
        /\ \A k \in 1..Len(skipped_items) :
              \E i \in 1..Len(photos) : photos[i] = skipped_items[k].path

\* a run ends its planning with one candidate a no-op and another one skipped
C1_Witness ==
    /\ PlanningEnded /\ NotCancelled
    /\ \E i, j \in 1..Len(photos) :
          /\ IsNoop(i)
          /\ Raised(j) /\ SkipCount(photos[j]) = 1

(***************************************************************************)
(* C2.  Collision, as claimed: when planning ends uncancelled, any two     *)
(* distinct candidates whose computed destinations are equal are both in   *)
(* skipped_items with a 'Destination already exists' error and neither is  *)
(* the source of a rename task, whether or not the destination exists on   *)
(* disk.  (Fails: with nothing at the destination both are accepted.)      *)
(***************************************************************************)
C2_CollidingBothSkipped ==
    (PlanningEnded /\ NotCancelled) =>
        \A i, j \in 1..Len(photos) :
            (i # j /\ Succeeded(i) /\ Succeeded(j) /\ DestinationOf(i) = DestinationOf(j))
                => /\ TaskCount(photos[i]) = 0
                   /\ \E k \in 1..Len(skipped_items) :
                         /\ skipped_items[k].path = photos[i]
                         /\ HasCollisionError(skipped_items[k])

(***************************************************************************)
(* C3.  Idempotent no-op: a candidate whose worker succeeded and whose     *)
(* destination exists and is the same file as its source is, once handled, *)
(* in neither list, and the step that handles its completion leaves both   *)
(* lists as they were.                                                     *)
(***************************************************************************)
C3_NoopUnlisted ==
    \A i \in drained :
        IsNoop(i) => TaskCount(photos[i]) = 0 /\ SkipCount(photos[i]) = 0

C3_NoopStep ==
    (pc = "result" /\ IsNoop(cur) /\ pc' \in {"wait", "loop"})
        => (rename_tasks' = rename_tasks /\ skipped_items' = skipped_items)

C3_IdempotentNoop == [](C3_NoopUnlisted) /\ [][C3_NoopStep]_vars

\* the completion of an already organized file has been handled
C3_Witness == \E i \in drained : IsNoop(i)

(***************************************************************************)
(* C4.  Cancellation mid-run, as claimed: after a KeyboardInterrupt during *)
(* the drain every submitted candidate is in one of the two lists or is an *)
(* idempotent no-op.  (Fails: a candidate whose completion was not handled *)
(* is in neither list, its worker finished or not.)                        *)
(***************************************************************************)
C4_NoThirdState ==
    (PlanningEnded /\ tpe_shutdown) =>
        \A i \in AllFutures :
            \/ TaskCount(photos[i]) + SkipCount(photos[i]) = 1
            \/ IsNoop(i)

(***************************************************************************)
(* C4, amended.  A KeyboardInterrupt during the drain changes neither      *)
(* list; after it every candidate whose completion the loop body had       *)
(* finished handling is listed as its own result says (accepted, skipped   *)
(* or no-op, as without the interrupt), and every other candidate (worker  *)
(* unfinished or cancelled, or finished but not yet handled) is in neither *)
(* list.                                                                   *)
(***************************************************************************)
C4_AfterInterrupt ==
    (PlanningEnded /\ tpe_shutdown) =>
        \A i \in AllFutures :
            IF i \in drained
            THEN ListedAsItsOwnResultSays(i)
            ELSE TaskCount(photos[i]) = 0 /\ SkipCount(photos[i]) = 0

C4_InterruptStep ==
    (pc \in {"wait", "loop", "result"} /\ pc' = "sort" /\ tpe_shutdown')
        => (rename_tasks' = rename_tasks /\ skipped_items' = skipped_items)

C4_HandledKeepTheirClass == [](C4_AfterInterrupt) /\ [][C4_InterruptStep]_vars

\* an interrupt found one candidate accepted and another one finished by its
\* worker but not yet handled
C4_Witness ==
    /\ PlanningEnded /\ tpe_shutdown
    /\ \E i \in drained : TaskCount(photos[i]) = 1
    /\ \E j \in AllFutures \ drained : Completed(j)

(***************************************************************************)
(* C5.  Per-file failure isolation: a worker that raised, AssertionError   *)
(* included, makes its file one entry of skipped_items whose only error is *)
(* the repr of the exception; handling it continues the loop; and at the   *)
(* end of an uncancelled planning every candidate has been handled and is  *)
(* listed as its own result says.                                          *)
(***************************************************************************)
C5_FailuresListed ==
    /\ \A i \in drained :
          Raised(i) =>
              /\ TaskCount(photos[i]) = 0
              /\ SkipCount(photos[i]) = 1
              /\ \E k \in 1..Len(skipped_items) :
                    skipped_items[k] =
                        [path |-> photos[i], datetime |-> NoDatetime,
                         datetime_source |-> "None",
                         errors |-> <<[msg |-> futures[i].result.exc, path |-> <<>>]>>]
    /\ (PlanningEnded /\ NotCancelled) =>
          /\ drained = 1..Len(photos)
          /\ \A j \in 1..Len(photos) : ListedAsItsOwnResultSays(j)

C5_FailureStep ==
    (pc = "result" /\ Raised(cur) /\ pc' # "result")
        => \/ /\ pc' \in {"wait", "loop"}
              /\ Len(skipped_items') = Len(skipped_items) + 1
              /\ rename_tasks' = rename_tasks
           \/ pc' = "sort" /\ tpe_shutdown'

C5_FailureIsolation == [](C5_FailuresListed) /\ [][C5_FailureStep]_vars

\* planning ended with one worker's assertion failure skipped and a sibling
\* accepted
C5_Witness ==
    /\ PlanningEnded /\ NotCancelled
    /\ \E i, j \in 1..Len(photos) :
          /\ Raised(i)
          /\ futures[i].result.exc =
                 "AssertionError('encoded_date/tagged_date should have UTC marking')"
          /\ SkipCount(photos[i]) = 1
          /\ IsFree(j) /\ TaskCount(photos[j]) = 1

(***************************************************************************)
(* C6.  Confirmation gate: a step that moves a file or creates a directory *)
(* is a step of the rename phase, entered after the counts were reported   *)
(* and the answer 'r' or 'R' was read; while planning, at the prompt, and  *)
(* after a run that ended without that answer, nothing was moved and no    *)
(* directory was made.                                                     *)
(***************************************************************************)
SaidRename == answer \in {<<"r">>, <<"R">>}

C6_NothingMovedYet ==
    (\/ pc \in {"start", "submit", "wait", "loop", "result", "sort", "prompt"}
     \/ (pc \in {"done", "crashed"} /\ ~SaidRename))
        => (renamed = 0 /\ mkdirs = {})

C6_MoveStep ==
    (disk' # disk \/ mkdirs' # mkdirs)
        => (pc = "rename" /\ collected # <<>> /\ SaidRename)

C6_ConfirmationGate == [](C6_NothingMovedYet) /\ [][C6_MoveStep]_vars

\* a file was moved after the answer 'R'
C6_Witness == renamed > 0 /\ mkdirs # {} /\ answer = <<"R">>

(***************************************************************************)
(* C7.  Final count, as claimed: a run that is at the prompt, renaming or  *)
(* over, also one that an interrupt during the submission of work ended,   *)
(* has reported the two counts.  (Fails: an interrupt during submission    *)
(* propagates out of start before the counts are logged.)                  *)
(***************************************************************************)
C7_CountsAlwaysReported ==
    (\/ pc \in {"prompt", "rename", "done"}
     \/ (pc = "crashed" /\ traceback = "submit"))
        => collected # <<>>

(***************************************************************************)
(* C8.  Prompt loop: an answer other than r, R, a, A (p, s, anything       *)
(* unrecognized) leaves rename_tasks, skipped_items and the files as they  *)
(* are and the run at the prompt; r and R enter the rename phase, a and A  *)
(* end the run; the prompt is left only by such an answer or by an         *)
(* interrupt.                                                              *)
(***************************************************************************)
C8_PromptStep ==
    pc = "prompt" =>
        /\ (prompts' = prompts + 1 /\ answer' \in {<<"r">>, <<"R">>}) => pc' = "rename"
        /\ (prompts' = prompts + 1 /\ answer' \in {<<"a">>, <<"A">>}) => pc' = "done"
        /\ (prompts' = prompts + 1
                /\ answer' \notin {<<"r">>, <<"R">>, <<"a">>, <<"A">>})
               => /\ pc' = "prompt"
                  /\ rename_tasks' = rename_tasks
                  /\ skipped_items' = skipped_items
                  /\ disk' = disk /\ mkdirs' = mkdirs
        /\ pc' # "prompt"
               => \/ /\ prompts' = prompts + 1
                     /\ answer' \in {<<"r">>, <<"R">>, <<"a">>, <<"A">>}
                  \/ /\ prompts' = prompts /\ answer' = answer
                     /\ pc' = "done"

MetadataAbsent(f) ==
    /\ ~f.isdir /\ f.decodable
    /\ \/ /\ Lower(Suffix(f.path)) \in pillow_exts
          /\ f.exif.DateTimeOriginal.isNone /\ f.exif.DateTimeDigitized.isNone
          /\ f.exif.DateTime.isNone
       \/ /\ Lower(Suffix(f.path)) \in mediainfo_exts
          /\ f.track.comapplequicktimecreationdate.isNone
          /\ f.track.encoded_date.isNone /\ f.track.tagged_date.isNone

C9_MetadataAbsentAccepted ==
    \A i \in AllFutures :
        (Completed(i) /\ MetadataAbsent(FileAt(disk, photos[i]))) =>
            /\ Succeeded(i)
            /\ LET info == futures[i].result.task.photo_info
               IN  /\ info.datetime_source = "mtime"
                   /\ info.datetime # NoDatetime
                   /\ info.datetime.tzname = Timezone
                   /\ ToEpoch(info.datetime) = FileAt(disk, photos[i]).mtime
                   /\ Len(info.errors) = 1
            /\ (i \in drained /\ IsFree(i)) =>
                   /\ TaskCount(photos[i]) = 1
                   /\ SkipCount(photos[i]) = 0

\* an image with EXIF but no date tag and a video without dates, both accepted
C9_Witness ==
    \E i, j \in drained :
        /\ MetadataAbsent(FileAt(disk, photos[i]))
        /\ Lower(Suffix(photos[i])) \in pillow_exts
        /\ FileAt(disk, photos[i]).exif.other
        /\ TaskCount(photos[i]) = 1
        /\ MetadataAbsent(FileAt(disk, photos[j]))
        /\ Lower(Suffix(photos[j])) \in mediainfo_exts
        /\ TaskCount(photos[j]) = 1

(***************************************************************************)
(* C10.  Timezone invariant: every entry of rename_tasks has a datetime,   *)
(* and its timezone is the configured one; get_info's validation turns the *)
(* same result with no or another timezone into an error; a video whose    *)
(* encoded/tagged date lacks the UTC marking is skipped and not accepted;  *)
(* and an uncancelled planning still handles every candidate.              *)
(***************************************************************************)
LacksUtcMarking(f) ==
    /\ ~f.isdir /\ f.decodable
    /\ Lower(Suffix(f.path)) \in mediainfo_exts
    /\ ~Truthy(f.track.comapplequicktimecreationdate)
    /\ Truthy(Or(f.track.encoded_date, f.track.tagged_date))
    /\ LET v == Or(f.track.encoded_date, f.track.tagged_date).val
       IN  SubSeq(v, 1, 3) # UTC /\ SubSeq(v, Len(v) - 2, Len(v)) # UTC

C10_TimezoneInvariant ==
    /\ \A k \in 1..Len(rename_tasks) :
          LET info == rename_tasks[k].photo_info
          IN  /\ info.datetime # NoDatetime
              /\ info.datetime.tzname = Timezone
              /\ \A tz \in {NoTz, "UTC", "tzoffset"} :
                    ~Validate(Returns([info EXCEPT !.datetime.tzname = tz])).ok
    /\ \A i \in drained :
          LacksUtcMarking(FileAt(disk, photos[i])) =>
              /\ TaskCount(photos[i]) = 0
              /\ SkipCount(photos[i]) = 1
    /\ (PlanningEnded /\ NotCancelled) => drained = 1..Len(photos)

\* planning ended with a video without the UTC marking skipped and another
\* file accepted
C10_Witness ==
    /\ PlanningEnded /\ NotCancelled
    /\ \E i, j \in 1..Len(photos) :
          /\ LacksUtcMarking(FileAt(disk, photos[i]))
          /\ SkipCount(photos[i]) = 1
          /\ TaskCount(photos[j]) = 1

(***************************************************************************)
(* What the claims about a single call of _get_rename_task speak of.       *)
(***************************************************************************)
Returned == call.made /\ call.returned
ReturnedTask == Returned /\ call.result.ok
CallInfo == call.result.task.photo_info
CallDestination == call.result.task.destination
CallExt == Lower(Suffix(call.f.path))

\* the datetime dt shows the digits of the text v (YYYY?MM?DD?HH?MM?SS) as
\* local time of the configured timezone
ReadsAs(dt, v) ==
    /\ dt # NoDatetime
    /\ Len(v) >= 19
    /\ dt.year = ParseInt(SubSeq(v, 1, 4))
    /\ dt.month = ParseInt(SubSeq(v, 6, 7))
    /\ dt.day = ParseInt(SubSeq(v, 9, 10))
    /\ dt.hour = ParseInt(SubSeq(v, 12, 13))
    /\ dt.minute = ParseInt(SubSeq(v, 15, 16))
    /\ dt.second = ParseInt(SubSeq(v, 18, 19))
    /\ dt.tzname = Timezone

(***************************************************************************)
(* C11.  Screenshot resolution, as claimed: every file that is a           *)
(* screenshot, by its extension or by a parent directory named             *)
(* Screenshots, and for which _get_rename_task returns a task, has its     *)
(* datetime from the modification time with source 'mtime' and a name with *)
(* the screenshot prefix.  (Fails: get_info picks the resolver by the      *)
(* extension first, so Screenshots/s.jpg is resolved from its EXIF.)       *)
(***************************************************************************)
C11_ScreenshotFromMtime ==
    (ReturnedTask /\ is_screenshot(call.f.path)) =>
        /\ CallInfo.datetime_source = "mtime"
        /\ CallInfo.datetime # NoDatetime
        /\ ToEpoch(CallInfo.datetime) = call.f.mtime
        /\ StartsWith(Name(CallDestination), SCREENSHOT_PREFIX)

(***************************************************************************)
(* C12.  EXIF fallback ordering, as claimed: for an image with some of the *)
(* three tags present, a task returned by the call has the parse of the    *)
(* first tag present in the order DateTimeOriginal, DateTimeDigitized,     *)
(* DateTime, with source 'EXIF'.  (Fails: a tag that is present but empty  *)
(* is passed over.)                                                        *)
(***************************************************************************)
FirstPresentTag(exif) ==
    IF ~exif.DateTimeOriginal.isNone THEN exif.DateTimeOriginal
    ELSE IF ~exif.DateTimeDigitized.isNone THEN exif.DateTimeDigitized
    ELSE exif.DateTime

FirstNonEmptyTag(exif) ==
    IF Truthy(exif.DateTimeOriginal) THEN exif.DateTimeOriginal
    ELSE IF Truthy(exif.DateTimeDigitized) THEN exif.DateTimeDigitized
    ELSE exif.DateTime

OutcomeOf(path) ==
    Classify(disk, mkdirs, path, WorkerResult(disk, path, dst_dir))

RECURSIVE PathsOfKind(_, _)
PathsOfKind(paths, kind) ==
    IF paths = <<>> THEN <<>>
    ELSE (IF OutcomeOf(Head(paths)).kind = kind THEN <<Head(paths)>> ELSE <<>>)
             \o PathsOfKind(Tail(paths), kind)

\* the list the files determine: the outcomes of the given kind, by path
ListOfKind(kind) ==
    LET paths == PathsOfKind(Candidates(disk, src_dir), kind)
    IN  [k \in 1..Len(paths) |-> OutcomeOf(paths[k]).item]

C13_DeterministicOrder ==
    pc = "prompt" =>
        LET accepted == ListOfKind("accept")
            skipped  == ListOfKind("skip")
        IN  /\ \A k \in 1..(Len(rename_tasks) - 1) :
                  PathLess(rename_tasks[k].photo_info.path,
                           rename_tasks[k + 1].photo_info.path)
            /\ \A k \in 1..(Len(skipped_items) - 1) :
                  PathLess(skipped_items[k].path, skipped_items[k + 1].path)
            /\ \A k \in 1..Len(rename_tasks) :
                  \E j \in 1..Len(accepted) : rename_tasks[k] = accepted[j]
            /\ \A k \in 1..Len(skipped_items) :
                  \E j \in 1..Len(skipped) : skipped_items[k] = skipped[j]
            /\ Len(rename_tasks) = Len(accepted) => rename_tasks = accepted
            /\ Len(skipped_items) = Len(skipped) => skipped_items = skipped

\* at the prompt with two rename tasks
C13_Witness ==
    /\ pc = "prompt"
    /\ Len(rename_tasks) = 2
    /\ prompts = 0

(***************************************************************************)
(* C14.  Destination path: while nothing has been moved, the destination   *)
(* of every entry of rename_tasks is dst_dir / the four digits of the year *)
(* of its datetime / a name made of the prefix ('IMG_', or the screenshot  *)
(* prefix for a screenshot), the eight digits of the date, '_', the six    *)
(* digits of the time, '_', the first seven characters of the SHA-1 and    *)
(* the lowercased extension of the source; DateTimeOriginal                *)
(* 2021:03:15 10:20:30 and fingerprint abc1234 on a.JPG give               *)
(* o/2021/IMG_20210315_102030_abc1234.jpg.                                 *)
(***************************************************************************)
DestinationAsSpecified(task) ==
    LET src    == task.photo_info.path
        dt     == task.photo_info.datetime
        dest   == task.destination
        n      == Len(dst_dir)
        prefix == IF is_screenshot(src) THEN SCREENSHOT_PREFIX
                  ELSE <<"I", "M", "G", "_">>
        rest   == SubSeq(dest[n + 2], Len(prefix) + 1, Len(dest[n + 2]))
    IN  /\ Len(dest) = n + 2
        /\ SubSeq(dest, 1, n) = dst_dir
        /\ Len(dest[n + 1]) = 4 /\ AllDigits(dest[n + 1])
        /\ ParseInt(dest[n + 1]) = dt.year
        /\ SubSeq(dest[n + 2], 1, Len(prefix)) = prefix
        /\ Len(rest) = 23 + Len(Suffix(src))
        /\ AllDigits(SubSeq(rest, 1, 8))
        /\ ParseInt(SubSeq(rest, 1, 8)) = dt.year * 10000 + dt.month * 100 + dt.day
        /\ rest[9] = "_"
        /\ AllDigits(SubSeq(rest, 10, 15))
        /\ ParseInt(SubSeq(rest, 10, 15))
               = dt.hour * 10000 + dt.minute * 100 + dt.second
        /\ rest[16] = "_"
        /\ SubSeq(rest, 17, 23) = SubSeq(FileAt(disk, src).sha1, 1, 7)
        /\ SubSeq(rest, 24, Len(rest)) = Lower(Suffix(src))

C14_DestinationPath ==
    (renamed = 0 /\ mkdirs = {}) =>
        \A k \in 1..Len(rename_tasks) :
            /\ DestinationAsSpecified(rename_tasks[k])
            /\ rename_tasks[k].photo_info.path = PhotoA.path
                   => rename_tasks[k].destination = PhotoOrganized.path

\* the photograph a.JPG and a screenshot, both accepted
C14_Witness ==
    /\ Len(rename_tasks) = 2
    /\ \E k \in 1..2 :
          /\ rename_tasks[k].photo_info.path = PhotoA.path
          /\ rename_tasks[k].destination = PhotoOrganized.path
    /\ \E k \in 1..2 :
          /\ is_screenshot(rename_tasks[k].photo_info.path)
          /\ StartsWith(Name(rename_tasks[k].destination), SCREENSHOT_PREFIX)

(***************************************************************************)
(* C15.  Skip reasons: in every reachable state every entry of             *)
(* skipped_items has a non-empty errors list whose last entry is a         *)
(* non-empty reason: the description of the worker's error when the entry  *)
(* has no datetime, the destination-collision message otherwise.           *)
(***************************************************************************)
C15_SkipReasons ==
    \A k \in 1..Len(skipped_items) :
        LET item == skipped_items[k]
            last == item.errors[Len(item.errors)]
        IN  /\ Len(item.errors) >= 1
            /\ last.msg # ""
            /\ IF item.datetime = NoDatetime
               THEN Len(item.errors) = 1 /\ last.msg # "Destination already exists"
               ELSE last.msg = "Destination already exists" /\ last.path # <<>>

\* at the prompt with a file skipped because another file is at its destination
C15_Witness ==
    /\ pc = "prompt"
    /\ \E k \in 1..Len(skipped_items) :
          /\ skipped_items[k].datetime # NoDatetime
          /\ HasCollisionError(skipped_items[k])

(***************************************************************************)
(* C16.  After cancellation is observed: the step that handles the         *)
(* KeyboardInterrupt in _prepare_rename_tasks cancels every future that    *)
(* has not started, leaves the running ones running and both lists as they *)
(* are, and ends the planning; from then on no wait returns, no future is  *)
(* taken and nothing is appended, and the prompt is handed the same        *)
(* entries, sorted.                                                        *)
(***************************************************************************)
SameEntries(s, t) ==
    /\ Len(s) = Len(t)
    /\ {s[k] : k \in 1..Len(s)} = {t[k] : k \in 1..Len(t)}

C16_Cancelled ==
    tpe_shutdown =>
        /\ pc = "sort"
        /\ pbar.closed
        /\ \A i \in AllFutures : futures[i].state # "queued"

C16_Step ==
    /\ (~tpe_shutdown /\ tpe_shutdown') =>
          /\ pc \in {"wait", "loop", "result"}
          /\ pc' = "sort"
          /\ rename_tasks' = rename_tasks /\ skipped_items' = skipped_items
          /\ pending' = pending /\ drained' = drained /\ pbar'.n = pbar.n
          /\ \A i \in AllFutures :
                futures'[i].state =
                    (IF futures[i].state = "queued" THEN "cancelled"
                     ELSE futures[i].state)
    /\ tpe_shutdown =>
          /\ pc' \in {"sort", "prompt", "crashed"}
          /\ pc' \in {"sort", "crashed"} =>
                rename_tasks' = rename_tasks /\ skipped_items' = skipped_items
          /\ pc' = "sort" =>
                /\ pending' = pending /\ done_now' = done_now /\ cur' = cur
                /\ drained' = drained /\ pbar' = pbar
          /\ pc' = "prompt" =>
                /\ SameEntries(rename_tasks', rename_tasks)
                /\ SameEntries(skipped_items', skipped_items)
                /\ collected' = <<Len(rename_tasks), Len(skipped_items)>>

C16_AfterCancellation == [](C16_Cancelled) /\ [][C16_Step]_vars

\* cancelled with one file accepted while the other's worker is still running
C16_Witness ==
    /\ tpe_shutdown
    /\ Len(rename_tasks) = 1
    /\ \E i \in AllFutures : futures[i].state = "running"

(***************************************************************************)
(* C17.  Progress accounting, as claimed: while _prepare_rename_tasks      *)
(* drains, the completed-count always equals the entries appended to       *)
(* rename_tasks plus those appended to skipped_items plus the idempotent   *)
(* no-ops.  (Fails: pbar.update(1) runs before the loop body appends.)     *)
(***************************************************************************)
Draining == pc \in {"wait", "loop", "result", "sort"}
NoopsHandled == {i \in drained : IsNoop(i)}
Appended == Len(rename_tasks) + Len(skipped_items)

C17_CountEqualsAppended ==
    Draining => pbar.n = Appended + Cardinality(NoopsHandled)

(***************************************************************************)
(* C17, amended.  All candidates are submitted before the first completion *)
(* is drained and the total is fixed at their number; the completed-count  *)
(* only increases, by exactly one when a completion is taken from the      *)
(* batch, before its outcome is appended; each future is taken at most     *)
(* once; the count never exceeds the total and equals appended entries     *)
(* plus idempotent no-ops, plus one from the moment a completion is taken  *)
(* until its loop body has finished (for good, if an interrupt ends the    *)
(* body).                                                                  *)
(***************************************************************************)
C17_Accounting ==
    /\ pc \in {"start", "submit"} =>
          /\ pbar.n = 0 /\ drained = {} /\ cur = 0 /\ Appended = 0
          /\ \A i \in AllFutures : i \notin drained
    /\ Draining =>
          /\ Len(futures) = Len(photos)
          /\ pbar.total = Len(photos)
          /\ pbar.n <= pbar.total
          /\ pbar.n = Cardinality(drained) + (IF cur # 0 THEN 1 ELSE 0)
          /\ Cardinality(drained) = Appended + Cardinality(NoopsHandled)
          /\ cur \notin drained
          /\ drained \cap (pending \cup done_now) = {}
          /\ pending \cap done_now = {}
          /\ cur \notin (pending \cup done_now)

C17_Step ==
    (Draining /\ pc' \in {"wait", "loop", "result", "sort"}) =>
        /\ pbar'.total = pbar.total
        /\ Len(futures') = Len(futures)
        /\ pbar'.n \in {pbar.n, pbar.n + 1}
        /\ (pbar'.n = pbar.n + 1) <=> (cur = 0 /\ cur' # 0)
        /\ drained \subseteq drained'
        /\ drained' # drained =>
              /\ cur # 0 /\ drained' = drained \cup {cur}
              /\ pbar'.n = pbar.n

C17_ProgressAccounting == [](C17_Accounting) /\ [][C17_Step]_vars

\* the second of two completions is taken and counted, its outcome not yet
\* appended
C17_Witness ==
    /\ pc = "result"
    /\ pbar.total = 2 /\ pbar.n = 2
    /\ Cardinality(drained) = 1
    /\ Appended + Cardinality(NoopsHandled) = 1

(***************************************************************************)
(* C18.  Termination of planning: with no KeyboardInterrupt and workers    *)
(* that keep running, the drain loop of _prepare_rename_tasks, once        *)
(* entered, eventually ends with pending empty, every future handled and   *)
(* the completed-count equal to the total; and a wait on a pending set     *)
(* that holds a finished future eventually returns.                        *)
(***************************************************************************)
PlanningComplete ==
    /\ pc = "sort"
    /\ pending = {} /\ done_now = {}
    /\ drained = AllFutures
    /\ pbar.n = pbar.total /\ pbar.total = Len(photos)
    /\ pbar.closed

C18_PlanningTerminates ==
    /\ (pc = "wait") ~> PlanningComplete
    /\ (pc = "wait" /\ \E i \in pending : Finished(i)) ~> (pc # "wait")

\* planning of two candidates has ended, both handled
C18_Witness == PlanningComplete /\ pbar.n = 2

(***************************************************************************)
(* C19.  Re-run idempotence, as claimed: after a run whose rename phase    *)
(* moved every accepted task, planning again with the destination tree as  *)
(* the source root finds every file there at the destination computed for  *)
(* it: every candidate is an idempotent no-op, so both lists come out      *)
(* empty.  (Fails: a file that was a screenshot only by its directory      *)
(* named Screenshots gets the default prefix where it lies now.)           *)
(***************************************************************************)
AllCommitted == pc = "done" /\ SaidRename /\ renamed = Len(rename_tasks)

C19_RerunIdempotent ==
    AllCommitted =>
        LET again == Candidates(disk, dst_dir)
        IN  /\ \A k \in 1..Len(rename_tasks) :
                  \E j \in 1..Len(again) : again[j] = rename_tasks[k].destination
            /\ \A j \in 1..Len(again) :
                  /\ WorkerResult(disk, again[j], dst_dir).ok
                  /\ WorkerResult(disk, again[j], dst_dir).task.destination = again[j]
                  /\ OutcomeOf(again[j]).kind = "noop"

(***************************************************************************)
(* C20.  Commit never overwrites, as claimed: when _do_rename moves the    *)
(* source of a task, nothing exists at the task's destination; and once    *)
(* every task is moved, as many files lie at the destinations as there are *)
(* tasks and every file is still on disk.  (Fails: two accepted tasks with *)
(* one destination; the second move replaces the file of the first.)       *)
(***************************************************************************)
C20_MoveStep ==
    (pc = "rename" /\ renamed' = renamed + 1) =>
        ~Exists(disk, mkdirs, rename_tasks[renamed + 1].destination)

C20_NothingLost ==
    AllCommitted =>
        /\ Cardinality({e \in disk :
               \E k \in 1..Len(rename_tasks) :
                   e.path = rename_tasks[k].destination}) = Len(rename_tasks)
        /\ Cardinality({e.ino : e \in disk}) >= Len(rename_tasks)

C20_NeverOverwrites == [](C20_NothingLost) /\ [][C20_MoveStep]_vars

=============================================================================
